---------------------------- MODULE Spec2Model ----------------------------
(***************************************************************************)
(* Model of src/utils/convert_to_xmind.py: the tab-indented outline to     *)
(* XMind converter (SimpleTestCaseToXMindConverter and main).              *)
(*                                                                         *)
(* A Python str is a sequence of one-character strings.  A multi-line      *)
(* string built by "\n".join / an f-string template is a sequence of line  *)
(* records.  Python objects (the node dicts) live in a heap `nodes`,       *)
(* indexed by creation order; node_stack and 'children' hold references    *)
(* (heap indexes), so that appending to node_stack[-1]['children'] is      *)
(* seen through every alias, as in Python.                                 *)
(***************************************************************************)
EXTENDS Integers, Sequences, FiniteSets, TLC

\* ------------------------------------------------------------- bounds ---
MaxTabs == 2      \* most leading tabs on a line of the input file
MaxLines == 3     \* most lines of the input file
MaxCalls == 2     \* most convert() calls in one behaviour
MaxTitle == 4     \* longest title given to _clean_text on its own

\* --------------------------------------------------------- characters ---
TAB == "\\t"
NL == "\\n"
SP == " "
AMP == "&"
LT == "<"
GT == ">"
QUOT == "\""
APOS == "'"
SEMI == ";"

\* str.strip() with no argument strips whitespace
IsSpace(c) == c \in {TAB, NL, SP}

RECURSIVE LStrip(_)
LStrip(s) ==
    IF s = <<>> THEN <<>>
    ELSE IF IsSpace(Head(s)) THEN LStrip(Tail(s))
    ELSE s

RECURSIVE RStrip(_)
RStrip(s) ==
    IF s = <<>> THEN <<>>
    ELSE IF IsSpace(s[Len(s)]) THEN RStrip(SubSeq(s, 1, Len(s) - 1))
    ELSE s

\* str.strip()
Strip(s) == RStrip(LStrip(s))

\* str.split('\n'): always at least one piece
RECURSIVE Split(_)
Split(s) ==
    IF \A i \in 1..Len(s) : s[i] # NL THEN <<s>>
    ELSE LET k == CHOOSE i \in 1..Len(s) :
                      /\ s[i] = NL
                      /\ \A j \in 1..(i - 1) : s[j] # NL
         IN <<SubSeq(s, 1, k - 1)>> \o Split(SubSeq(s, k + 1, Len(s)))

\* str.replace(old, new) for a one-character old
RECURSIVE Replace(_, _, _)
Replace(s, old, new) ==
    IF s = <<>> THEN <<>>
    ELSE (IF Head(s) = old THEN new ELSE <<Head(s)>>) \o Replace(Tail(s), old, new)

\* the five replacements with the ampersand done last
CleanOrder_AmpLast == <<LT, GT, QUOT, APOS, AMP>>

\* the order of the five replacements of _clean_text
CleanOrder == <<AMP, LT, GT, QUOT, APOS>>

Entity(c) ==
    CASE c = AMP -> <<AMP, "a", "m", "p", SEMI>>
      [] c = LT -> <<AMP, "l", "t", SEMI>>
      [] c = GT -> <<AMP, "g", "t", SEMI>>
      [] c = QUOT -> <<AMP, "q", "u", "o", "t", SEMI>>
      [] c = APOS -> <<AMP, "a", "p", "o", "s", SEMI>>

RECURSIVE ReplaceAll(_, _)
ReplaceAll(text, order) ==
    IF order = <<>> THEN text
    ELSE ReplaceAll(Replace(text, Head(order), Entity(Head(order))), Tail(order))

_clean_text(text) == ReplaceAll(text, CleanOrder)

RECURSIVE _get_indent_level(_)
_get_indent_level(line) ==
    IF line = <<>> THEN 0
    ELSE IF Head(line) = TAB THEN 1 + _get_indent_level(Tail(line))
    ELSE 0

\* a blank test that forgets strip(): only the empty line is blank
IsBlankLine_NoStrip(line) == line = <<>>

\* `if not line.strip(): continue`
IsBlankLine(line) == Strip(line) = <<>>

\* f"topic{self.node_id_counter}"
TopicId(n) == <<"topic", n>>

RootTitle == <<"R">>   \* the fixed title of the synthetic root

\* an id source that forgets to store the incremented counter
_get_next_id_Stuck(counter) == [counter |-> counter, id |-> TopicId(counter + 1)]

\* self.node_id_counter += 1; return f"topic{self.node_id_counter}"
_get_next_id(counter) == [counter |-> counter + 1, id |-> TopicId(counter + 1)]

\* a pop loop written with `!=`: it unwinds to the root when the stack is
\* shorter than the level asks for
PopStack_ToRoot(stack, level) ==
    IF Len(stack) >= level + 1 THEN SubSeq(stack, 1, level + 1) ELSE <<stack[1]>>

\* a pop loop that is off by one: it pops down to `indent_level` entries
PopStack_OneTooMany(stack, level) ==
    IF Len(stack) > level THEN SubSeq(stack, 1, level) ELSE stack

\* a pop loop that never pops
PopStack_NoPop(stack, level) == stack

\* `while len(node_stack) > indent_level + 1: node_stack.pop()`
RECURSIVE PopStack(_, _)
PopStack(stack, level) ==
    IF Len(stack) > level + 1
    THEN PopStack(SubSeq(stack, 1, Len(stack) - 1), level)
    ELSE stack

\* a node dict
Node(id, title) == [id |-> id, title |-> title, children |-> <<>>]

\* ----------------------------------------------------------- emitter ---
NoId == <<"none", 0>>
XLine(indent, tag, id, text) == [indent |-> indent, tag |-> tag, id |-> id, text |-> text]
Markup(indent, tag) == XLine(indent, tag, NoId, <<>>)
\* "" placed on a line of its own by the template
EmptyLine == Markup(0, "empty")

RECURSIVE _build_simple_children_xml(_, _, _)
RECURSIVE ChildrenLoop(_, _, _)

\* the body of `for child in children`, for each child in list order
ChildrenLoop(heap, children, indent_level) ==
    IF children = <<>> THEN <<>>
    ELSE LET child == heap[Head(children)]
             topic_indent == indent_level + 4
         IN <<XLine(topic_indent, "topic", child.id, <<>>),
              XLine(topic_indent + 2, "title", NoId, child.title)>>
            \o (IF child.children # <<>>
                THEN _build_simple_children_xml(heap, child.children, indent_level + 6)
                ELSE <<>>)
            \o <<Markup(topic_indent, "/topic")>>
            \o ChildrenLoop(heap, Tail(children), indent_level)

\* a builder without the `if not children: return ""` guard
_build_simple_children_xml_NoGuard(heap, children, indent_level) ==
    <<Markup(indent_level, "children"),
      Markup(indent_level + 2, "topics attached")>>
    \o ChildrenLoop(heap, children, indent_level)
    \o <<Markup(indent_level + 2, "/topics"),
         Markup(indent_level, "/children")>>

_build_simple_children_xml(heap, children, indent_level) ==
    IF children = <<>> THEN <<EmptyLine>>
    ELSE <<Markup(indent_level, "children"),
           Markup(indent_level + 2, "topics attached")>>
         \o ChildrenLoop(heap, children, indent_level)
         \o <<Markup(indent_level + 2, "/topics"),
              Markup(indent_level, "/children")>>

\* the content_xml template of _create_simple_xmind_file
ContentXml(heap, root) ==
    <<Markup(0, "?xml"),
      Markup(0, "xmap-content"),
      Markup(2, "sheet"),
      XLine(4, "topic", heap[root].id, <<>>),
      XLine(6, "title", NoId, heap[root].title)>>
    \o _build_simple_children_xml(heap, heap[root].children, 6)
    \o <<Markup(4, "/topic"),
         Markup(2, "/sheet"),
         Markup(0, "/xmap-content")>>

MetaXml == <<Markup(0, "?xml"), Markup(0, "meta"), Markup(0, "/meta")>>

ManifestXml ==
    <<Markup(0, "?xml"),
      Markup(0, "manifest"),
      XLine(2, "file-entry", NoId, <<"content.xml">>),
      XLine(2, "file-entry", NoId, <<"meta.xml">>),
      Markup(0, "/manifest")>>

\* the three writestr calls, in order
EntryNames == <<"content.xml", "meta.xml", "META-INF/manifest.xml">>
EntryData(xml, k) ==
    CASE k = 1 -> xml
      [] k = 2 -> MetaXml
      [] k = 3 -> ManifestXml

\* --------------------------------------------------------- file system ---
NoFile == <<"<no file>">>
Absent == [kind |-> "absent", entries |-> <<>>, closed |-> FALSE]
OldFile == [kind |-> "old", entries |-> <<>>, closed |-> FALSE]
\* zipfile.ZipFile(output_file, 'w'): the file is created or truncated on open
OpenedZip == [kind |-> "zip", entries |-> <<>>, closed |-> FALSE]

\* ------------------------------------------------------- input files ---
Bodies == {<<>>, <<"a">>, <<AMP, SP>>}
Tabs(n) == [i \in 1..n |-> TAB]
InputLines == {Tabs(n) \o b : n \in 0..MaxTabs, b \in Bodies}

RECURSIVE JoinLines(_)
JoinLines(ls) ==
    IF ls = <<>> THEN <<>>
    ELSE IF Len(ls) = 1 THEN ls[1]
    ELSE ls[1] \o <<NL>> \o JoinLines(Tail(ls))

Texts == {JoinLines(ls) : ls \in UNION {[1..n -> InputLines] : n \in 0..MaxLines}}

\* -------------------------------------------------------------- state ---
VARIABLES
    fs_input,          \* the input file: its text, or NoFile
    fs_output,         \* the destination file
    node_id_counter,   \* node_id_counter of every converter instance made so far
    self,              \* the instance whose convert() is running (0: none)
    caller,            \* who called convert(): "main", "api" or "none"
    pc,                \* position of the running call
    calls,             \* calls of main() / convert() started so far
    content,           \* convert: content
    lines,             \* _parse_content: lines
    idx,               \* _parse_content: position of `for line in lines`
    nodes,             \* heap of node dicts made by the running _parse_content
    node_stack,        \* _parse_content: node_stack (heap indexes)
    indent_level,      \* _parse_content: indent_level of the last non-blank line
    new_node,          \* _parse_content: new_node (heap index, 0: unbound)
    content_xml,       \* _create_simple_xmind_file: content_xml
    written,           \* the writestr calls done in the running call
    error,             \* the exception in flight or last raised ("none": none)
    exitCode,          \* return value of the last main() (-1: none)
    archives,          \* archive written by every convert() that returned
    dest_before,       \* the destination file as the last call found it
    title,             \* a title passed to _clean_text directly
    cleaned            \* and what _clean_text returned for it

vars == <<fs_input, fs_output, node_id_counter, self, caller, pc, calls, content,
          lines, idx, nodes, node_stack, indent_level, new_node, content_xml,
          written, error, exitCode, archives, dest_before, title, cleaned>>

locals == <<content, lines, idx, nodes, node_stack, indent_level, new_node, content_xml>>
files == <<fs_input, fs_output>>
cleanVars == <<title, cleaned>>
history == <<archives, dest_before>>

NoExit == 0 - 1
NoText == <<"<unset>">>

Init ==
    /\ fs_input \in Texts \cup {NoFile}
    /\ fs_output \in {Absent, OldFile}
    /\ node_id_counter = <<>>
    /\ self = 0
    /\ caller = "none"
    /\ pc = "idle"
    /\ calls = 0
    /\ content = <<>>
    /\ lines = <<>>
    /\ idx = 0
    /\ nodes = <<>>
    /\ node_stack = <<>>
    /\ indent_level = 0
    /\ new_node = 0
    /\ content_xml = <<>>
    /\ written = 0
    /\ error = "none"
    /\ exitCode = NoExit
    /\ archives = <<>>
    /\ dest_before = fs_output
    /\ title = NoText
    /\ cleaned = NoText

\* locals of a finished call are gone
DropLocals ==
    /\ content' = <<>>
    /\ lines' = <<>>
    /\ idx' = 0
    /\ nodes' = <<>>
    /\ node_stack' = <<>>
    /\ indent_level' = 0
    /\ new_node' = 0
    /\ content_xml' = <<>>

\* __init__: self.node_id_counter = 0
NewCounter == 0

\* ---------------------------------------------------------------- main ---
\* main(): the os.path.exists check, then a fresh converter and convert()
CallMain ==
    /\ pc = "idle"
    /\ calls < MaxCalls
    /\ calls' = calls + 1
    /\ caller' = "main"
    /\ error' = "none"
    /\ written' = 0
    /\ IF fs_input = NoFile
       THEN /\ exitCode' = 1
            /\ pc' = "idle"
            /\ UNCHANGED <<node_id_counter, self>>
       ELSE /\ exitCode' = NoExit
            /\ node_id_counter' = Append(node_id_counter, NewCounter)
            /\ self' = Len(node_id_counter) + 1
            /\ pc' = "read"
    /\ dest_before' = fs_output
    /\ UNCHANGED <<files, locals, archives, cleanVars>>

\* SimpleTestCaseToXMindConverter().convert(...) by a caller other than main
CallConvertNew ==
    /\ pc = "idle"
    /\ calls < MaxCalls
    /\ calls' = calls + 1
    /\ caller' = "api"
    /\ error' = "none"
    /\ written' = 0
    /\ exitCode' = NoExit
    /\ node_id_counter' = Append(node_id_counter, NewCounter)
    /\ self' = Len(node_id_counter) + 1
    /\ pc' = "read"
    /\ dest_before' = fs_output
    /\ UNCHANGED <<files, locals, archives, cleanVars>>

\* convert(...) called again on an instance that already exists
CallConvertAgain ==
    /\ pc = "idle"
    /\ calls < MaxCalls
    /\ \E c \in 1..Len(node_id_counter) : self' = c
    /\ calls' = calls + 1
    /\ caller' = "api"
    /\ error' = "none"
    /\ written' = 0
    /\ exitCode' = NoExit
    /\ pc' = "read"
    /\ dest_before' = fs_output
    /\ UNCHANGED <<files, node_id_counter, locals, archives, cleanVars>>

\* ------------------------------------------------------------- convert ---
\* with open(input_file, 'r') as f: content = f.read()
ReadInput ==
    /\ pc = "read"
    /\ \/ /\ fs_input # NoFile
          /\ content' = fs_input
          /\ pc' = "parse"
          /\ UNCHANGED error
       \/ /\ error' = IF fs_input = NoFile THEN "FileNotFoundError" ELSE "read error"
          /\ pc' = "raised"
          /\ UNCHANGED content
    /\ UNCHANGED <<files, node_id_counter, self, caller, calls, lines, idx, nodes,
                   node_stack, indent_level, new_node, content_xml, written,
                   exitCode, history, cleanVars>>

\* _parse_content up to the loop: split the text, make the root, start the stack
ParseInit ==
    /\ pc = "parse"
    /\ LET next == _get_next_id(node_id_counter[self])
       IN /\ node_id_counter' = [node_id_counter EXCEPT ![self] = next.counter]
          /\ nodes' = <<Node(next.id, RootTitle)>>
    /\ lines' = Split(Strip(content))
    /\ node_stack' = <<1>>
    /\ idx' = 1
    /\ pc' = "loop"
    /\ UNCHANGED <<files, self, caller, calls, content, indent_level, new_node,
                   content_xml, written, error, exitCode, history, cleanVars>>

\* one iteration of `for line in lines` on a blank line: continue
SkipBlankLine ==
    /\ pc = "loop"
    /\ idx <= Len(lines)
    /\ IsBlankLine(lines[idx])
    /\ idx' = idx + 1
    /\ UNCHANGED <<files, node_id_counter, self, caller, pc, calls, content, lines,
                   nodes, node_stack, indent_level, new_node, content_xml, written,
                   error, exitCode, history, cleanVars>>

\* one iteration of `for line in lines` on a non-blank line
ParseLine ==
    /\ pc = "loop"
    /\ idx <= Len(lines)
    /\ ~IsBlankLine(lines[idx])
    /\ LET line == lines[idx]
           level == _get_indent_level(line)
           clean_text == _clean_text(Strip(line))
           stack == PopStack(node_stack, level)
           next == _get_next_id(node_id_counter[self])
           new == Len(nodes) + 1
           parent == stack[Len(stack)]
       IN /\ indent_level' = level
          /\ node_id_counter' = [node_id_counter EXCEPT ![self] = next.counter]
          /\ new_node' = new
          /\ IF stack = <<>>
             THEN \* node_stack[-1] on an empty list: IndexError
                  /\ nodes' = Append(nodes, Node(next.id, clean_text))
                  /\ node_stack' = stack
                  /\ error' = "IndexError"
                  /\ pc' = "raised"
                  /\ UNCHANGED idx
             ELSE /\ nodes' = Append([nodes EXCEPT ![parent].children = Append(@, new)],
                                     Node(next.id, clean_text))
                  /\ node_stack' = Append(stack, new)
                  /\ idx' = idx + 1
                  /\ UNCHANGED <<pc, error>>
    /\ UNCHANGED <<files, self, caller, calls, content, lines, content_xml,
                   written, exitCode, history, cleanVars>>

\* the loop is exhausted: return root_node
ParseReturn ==
    /\ pc = "loop"
    /\ idx > Len(lines)
    /\ pc' = "emit"
    /\ UNCHANGED <<files, node_id_counter, self, caller, calls, locals, written,
                   error, exitCode, history, cleanVars>>

\* a builder that takes a fresh id (for the sheet) from the counter
BuildXml_TakesId ==
    /\ pc = "emit"
    /\ content_xml' = ContentXml(nodes, 1)
    /\ node_id_counter' =
         [node_id_counter EXCEPT ![self] = _get_next_id(node_id_counter[self]).counter]
    /\ pc' = "zip_open"
    /\ UNCHANGED <<files, self, caller, calls, content, lines, idx,
                   nodes, node_stack, indent_level, new_node, written, error,
                   exitCode, history, cleanVars>>

\* _create_simple_xmind_file: build the three documents
BuildXml ==
    /\ pc = "emit"
    /\ content_xml' = ContentXml(nodes, 1)
    /\ pc' = "zip_open"
    /\ UNCHANGED <<files, node_id_counter, self, caller, calls, content, lines, idx,
                   nodes, node_stack, indent_level, new_node, written, error,
                   exitCode, history, cleanVars>>

\* zipfile.ZipFile(output_file, 'w', ...): opens (truncating) or raises
ZipOpen ==
    /\ pc = "zip_open"
    /\ \/ /\ fs_output' = OpenedZip
          /\ pc' = "write"
          /\ UNCHANGED error
       \/ /\ error' = "open error"
          /\ pc' = "raised"
          /\ UNCHANGED fs_output
    /\ UNCHANGED <<fs_input, node_id_counter, self, caller, calls, locals, written,
                   exitCode, history, cleanVars>>

\* the next xmind_zip.writestr(name, data); on an exception the with block
\* closes the archive, which may or may not manage to write its directory
ZipWrite ==
    /\ pc = "write"
    /\ written < Len(EntryNames)
    /\ \/ /\ fs_output' = [fs_output EXCEPT !.entries = Append(@,
                 [name |-> EntryNames[written + 1],
                  data |-> EntryData(content_xml, written + 1)])]
          /\ written' = written + 1
          /\ UNCHANGED <<pc, error>>
       \/ /\ \E dir \in BOOLEAN : fs_output' = [fs_output EXCEPT !.closed = dir]
          /\ error' = "write error"
          /\ pc' = "raised"
          /\ UNCHANGED written
    /\ UNCHANGED <<fs_input, node_id_counter, self, caller, calls, locals,
                   exitCode, history, cleanVars>>

\* leaving the with block: ZipFile.close() writes the directory, or raises
ZipClose ==
    /\ pc = "write"
    /\ written = Len(EntryNames)
    /\ \/ /\ fs_output' = [fs_output EXCEPT !.closed = TRUE]
          /\ pc' = "returning"
          /\ UNCHANGED error
       \/ /\ error' = "close error"
          /\ pc' = "raised"
          /\ UNCHANGED fs_output
    /\ UNCHANGED <<fs_input, node_id_counter, self, caller, calls, locals, written,
                   exitCode, history, cleanVars>>

\* convert: print and return str(output_file)
ConvertReturn ==
    /\ pc = "returning"
    /\ archives' = Append(archives, fs_output.entries)
    /\ pc' = "returned"
    /\ DropLocals
    /\ UNCHANGED <<files, node_id_counter, self, caller, calls, written, error,
                   exitCode, dest_before, cleanVars>>

\* convert: `except Exception as e: print(...); raise`
ConvertExcept ==
    /\ pc = "raised"
    /\ pc' = "unwound"
    /\ DropLocals
    /\ UNCHANGED <<files, node_id_counter, self, caller, calls, written, error,
                   exitCode, history, cleanVars>>

\* main: convert returned: return 0 (main's converter is a local: it is the
\* newest instance and nothing can call it again)
MainReturn ==
    /\ pc = "returned"
    /\ caller = "main"
    /\ exitCode' = 0
    /\ pc' = "idle"
    /\ self' = 0
    /\ node_id_counter' = SubSeq(node_id_counter, 1, Len(node_id_counter) - 1)
    /\ UNCHANGED <<files, caller, calls, locals, written, error, history, cleanVars>>

\* an except clause that reports and then falls through to `return 0`
MainExcept_Swallow ==
    /\ pc = "unwound"
    /\ caller = "main"
    /\ exitCode' = 0
    /\ pc' = "idle"
    /\ self' = 0
    /\ node_id_counter' = SubSeq(node_id_counter, 1, Len(node_id_counter) - 1)
    /\ UNCHANGED <<files, caller, calls, locals, written, error, history, cleanVars>>

\* main: `except Exception as e: print(...); return 1`
MainExcept ==
    /\ pc = "unwound"
    /\ caller = "main"
    /\ exitCode' = 1
    /\ pc' = "idle"
    /\ self' = 0
    /\ node_id_counter' = SubSeq(node_id_counter, 1, Len(node_id_counter) - 1)
    /\ UNCHANGED <<files, caller, calls, locals, written, error, history, cleanVars>>

\* another caller: convert returned or raised into it
ApiDone ==
    /\ pc \in {"returned", "unwound"}
    /\ caller = "api"
    /\ pc' = "idle"
    /\ self' = 0
    /\ UNCHANGED <<files, node_id_counter, caller, calls, locals, written, error,
                   exitCode, history, cleanVars>>

Next ==
    \/ CallMain
    \/ CallConvertNew
    \/ CallConvertAgain
    \/ ReadInput
    \/ ParseInit
    \/ SkipBlankLine
    \/ ParseLine
    \/ ParseReturn
    \/ BuildXml
    \/ ZipOpen
    \/ ZipWrite
    \/ ZipClose
    \/ ConvertReturn
    \/ ConvertExcept
    \/ MainReturn
    \/ MainExcept
    \/ ApiDone

Spec == Init /\ [][Next]_vars

\* --------------------------------------------- _clean_text on its own ---
TitleChars == {AMP, LT, GT, QUOT, APOS, SEMI, "a", "l", "t"}
Titles == UNION {[1..n -> TitleChars] : n \in 0..MaxTitle}

InitClean ==
    /\ fs_input = NoFile
    /\ fs_output = Absent
    /\ node_id_counter = <<>>
    /\ self = 0
    /\ caller = "none"
    /\ pc = "idle"
    /\ calls = 0
    /\ content = <<>>
    /\ lines = <<>>
    /\ idx = 0
    /\ nodes = <<>>
    /\ node_stack = <<>>
    /\ indent_level = 0
    /\ new_node = 0
    /\ content_xml = <<>>
    /\ written = 0
    /\ error = "none"
    /\ exitCode = NoExit
    /\ archives = <<>>
    /\ dest_before = Absent
    /\ title \in Titles
    /\ cleaned = NoText

\* clean_text = self._clean_text(text)
CleanTitle ==
    /\ cleaned = NoText
    /\ cleaned' = _clean_text(title)
    /\ UNCHANGED <<files, node_id_counter, self, caller, pc, calls, locals, written,
                   error, exitCode, history, title>>

NextClean == CleanTitle

SpecClean == InitClean /\ [][NextClean]_vars

\* ------------------------------------------------- the input, as text ---
\* Positions of the first non-whitespace character of a line of text: one per
\* non-blank line, in line order.
SameLine(text, j, i) == \A m \in j..(i - 1) : text[m] # NL

InkStarts(text) ==
    {i \in 1..Len(text) :
        /\ ~IsSpace(text[i])
        /\ \A j \in 1..(i - 1) : SameLine(text, j, i) => IsSpace(text[j])}

NonBlankCount(text) == Cardinality(InkStarts(text))

\* the position of the k-th non-blank line's first non-whitespace character
InkOf(text, k) ==
    CHOOSE i \in InkStarts(text) : Cardinality({j \in InkStarts(text) : j <= i}) = k

\* the leading tabs of the line whose first non-whitespace character is at i
LeadingTabs(text, i) ==
    Cardinality({j \in 1..(i - 1) :
        /\ SameLine(text, j, i)
        /\ \A m \in 1..j : SameLine(text, m, i) => text[m] = TAB})

\* the text of the line from position i to its end: up to the next NL
RestOfLine(text, i) ==
    LET stops == {j \in i..Len(text) : text[j] = NL}
        last == IF stops = {} THEN Len(text)
                ELSE (CHOOSE j \in stops : \A m \in stops : j <= m) - 1
    IN SubSeq(text, i, last)

\* ------------------------------------------------------ the node tree ---
RECURSIVE PreOrder(_, _)
RECURSIVE PreOrderAll(_, _)
PreOrderAll(heap, children) ==
    IF children = <<>> THEN <<>>
    ELSE PreOrder(heap, Head(children)) \o PreOrderAll(heap, Tail(children))
PreOrder(heap, n) == <<n>> \o PreOrderAll(heap, heap[n].children)

InSeq(x, seq) == \E i \in 1..Len(seq) : seq[i] = x

\* the nodes that hold n in their children
ParentsOf(heap, n) == {p \in 1..Len(heap) : InSeq(n, heap[p].children)}

TopicLines(xml) == {i \in 1..Len(xml) : xml[i].tag = "topic"}

Parsing == pc \in {"loop", "emit", "zip_open", "write", "returning"}
Parsed == pc \in {"emit", "zip_open", "write", "returning"}
Emitted == pc \in {"zip_open", "write", "returning"}

HasContentXml(file) ==
    /\ file.kind = "zip"
    /\ Len(file.entries) >= 1

\* ----------------------------------------------------------------- C1 ---
\* C1: the content.xml that one conversion builds, and the one it writes to
\* the archive, holds exactly (number of non-blank input lines) + 1 <topic>
\* elements: the root and one per non-blank line, none for blank lines.
C1_TopicCount ==
    /\ Emitted =>
         Cardinality(TopicLines(content_xml)) = NonBlankCount(fs_input) + 1
    /\ HasContentXml(fs_output) =>
         /\ fs_output.entries[1].name = "content.xml"
         /\ Cardinality(TopicLines(fs_output.entries[1].data))
              = NonBlankCount(fs_input) + 1

\* an archive is written for an input with blank and non-blank lines
C1_Witness ==
    /\ pc = "returning"
    /\ NonBlankCount(fs_input) >= 2
    /\ Len(Split(fs_input)) > NonBlankCount(fs_input)
    /\ Cardinality(TopicLines(fs_output.entries[1].data)) >= 3

\* ----------------------------------------------------------------- C2 ---
\* C2: in the tree of one _parse_content call the ids are pairwise distinct,
\* and the pre-order traversal from the root visits the nodes in input line
\* order (creation order; the title of the k-th node after the root is that
\* of the k-th non-blank line) with consecutive, strictly increasing
\* counter values.
C2_PreOrderIds ==
    Parsing =>
      /\ PreOrder(nodes, 1) = [i \in 1..Len(nodes) |-> i]
      /\ \A i, j \in 1..Len(nodes) : i # j => nodes[i].id # nodes[j].id
      /\ \A i \in 1..(Len(nodes) - 1) :
            /\ nodes[i].id[1] = "topic"
            /\ nodes[i + 1].id = <<"topic", nodes[i].id[2] + 1>>
      /\ Len(nodes) <= NonBlankCount(fs_input) + 1
      /\ \A k \in 1..(Len(nodes) - 1) :
            nodes[k + 1].title
              = _clean_text(Strip(RestOfLine(fs_input, InkOf(fs_input, k))))

\* a parse that ended with a tree of depth two or more and two children
\* under one node
C2_Witness ==
    /\ Parsed
    /\ Len(nodes) >= 4
    /\ \E p \in 2..Len(nodes) : Len(nodes[p].children) >= 1
    /\ \E p \in 1..Len(nodes) : Len(nodes[p].children) >= 2

\* ----------------------------------------------------------------- C3 ---
\* C3: any two convert calls on the same input and output path write
\* identical archive contents (the input file never changes here, so every
\* archive written in one behaviour comes from the same input).
C3_Idempotent ==
    \A i, j \in 1..Len(archives) : archives[i] = archives[j]

\* ----------------------------------------------------------------- C4 ---
\* C4: in every conversion run the synthetic root has id topic1 and the
\* node of the k-th non-blank line has id topic(k+1), whatever conversions
\* ran before it.
C4_RunScopedIds ==
    Parsing => \A i \in 1..Len(nodes) : nodes[i].id = TopicId(i)

\* ----------------------------------------------------------------- C5 ---
Complete(file) ==
    /\ file.kind = "zip"
    /\ file.closed
    /\ Len(file.entries) = Len(EntryNames)
    /\ \A k \in 1..Len(EntryNames) : file.entries[k].name = EntryNames[k]

Failed == pc \in {"raised", "unwound"} \/ (pc = "idle" /\ (error # "none" \/ exitCode = 1))
Succeeded == pc \in {"returning", "returned"} \/ (pc = "idle" /\ calls > 0 /\ error = "none" /\ exitCode # 1)

\* C5: a run is all-or-nothing for the destination: after a success the
\* destination is a complete archive of the three entries; after a failure
\* it does not exist or is the file the run found, unchanged.
C5_AllOrNothing ==
    /\ Succeeded => Complete(fs_output)
    /\ Failed => (fs_output = Absent \/ fs_output = dest_before)

\* ----------------------------------------------------------------- C6 ---
Reserved == {AMP, LT, GT, QUOT, APOS}

\* each character on its own: a reserved one by its entity, another by itself
RECURSIVE Substituted(_)
Substituted(t) ==
    IF t = <<>> THEN <<>>
    ELSE (IF Head(t) \in Reserved THEN Entity(Head(t)) ELSE <<Head(t)>>)
         \o Substituted(Tail(t))

StartsAt(s, i, piece) ==
    /\ i + Len(piece) - 1 <= Len(s)
    /\ SubSeq(s, i, i + Len(piece) - 1) = piece

TabRun(line) ==
    Cardinality({j \in 1..Len(line) : \A m \in 1..j : line[m] = TAB})

\* the loop is about to take a non-blank line indented beyond the stack depth
AtJump ==
    /\ pc = "loop"
    /\ idx <= Len(lines)
    /\ ~IsBlankLine(lines[idx])
    /\ TabRun(lines[idx]) + 1 > Len(node_stack)

\* C7: a non-blank line indented beyond the current stack depth raises no
\* error, adds exactly one node (no placeholders) and hangs it directly
\* under the node that was on top of the ancestor stack.
C7_DepthJump ==
    [][AtJump =>
         LET top == node_stack[Len(node_stack)]
             new == Len(nodes) + 1
         IN /\ pc' = "loop"
            /\ error' = "none"
            /\ Len(nodes') = new
            /\ nodes'[top].children = Append(nodes[top].children, new)
            /\ ParentsOf(nodes', new) = {top}
            /\ \A n \in 1..Len(nodes) : n # top => nodes'[n] = nodes[n]
            /\ nodes'[new].children = <<>>
            /\ node_stack' = Append(node_stack, new)]_vars

\* the loop has just taken such a line: the new node hangs under the node
\* of the previous non-blank line, more than one level shallower
C7_Witness ==
    /\ pc = "loop"
    /\ new_node = Len(nodes)
    /\ new_node >= 3
    /\ Len(node_stack) < indent_level + 2
    /\ ParentsOf(nodes, new_node) = {new_node - 1}

\* ---------------------------------------------------------------- C10 ---
TabsOfLine(text, k) == LeadingTabs(text, InkOf(text, k))

\* the node of the nearest earlier non-blank line with fewer leading tabs
\* than line k, or the root
NearestShallower(text, k) ==
    LET shallower == {m \in 1..(k - 1) : TabsOfLine(text, m) < TabsOfLine(text, k)}
    IN IF shallower = {} THEN 1
       ELSE 1 + (CHOOSE m \in shallower : \A o \in shallower : o <= m)

\* up to line k no non-blank line is indented more than one level deeper
\* than the one before it, and the first is not indented
NoJumpUpTo(text, k) ==
    \A m \in 1..k :
        TabsOfLine(text, m) <= (IF m = 1 THEN 0 ELSE TabsOfLine(text, m - 1) + 1)

\* C10 (as claimed): for every input, the parent of the node of a non-blank
\* line with k leading tabs is the node of the nearest preceding non-blank
\* line with fewer than k leading tabs, or the root.
C10_ParentEveryInput ==
    Parsing =>
      \A k \in 1..(Len(nodes) - 1) :
          ParentsOf(nodes, k + 1) = {NearestShallower(fs_input, k)}

\* C10 (amended): the same, for every non-blank line up to which the input
\* has no indentation jump (each non-blank line at most one level deeper
\* than the previous one, the first at level 0).
C10_ParentNoJump ==
    Parsing =>
      \A k \in 1..(Len(nodes) - 1) :
          NoJumpUpTo(fs_input, k) =>
              ParentsOf(nodes, k + 1) = {NearestShallower(fs_input, k)}

\* a parse of three non-blank lines without a jump whose third line made
\* the loop pop: a sibling of, or shallower than, the indented second line
C10_Witness ==
    /\ Parsed
    /\ Len(nodes) = 4
    /\ NoJumpUpTo(fs_input, 3)
    /\ TabsOfLine(fs_input, 2) >= 1
    /\ TabsOfLine(fs_input, 3) <= TabsOfLine(fs_input, 2)
    /\ ParentsOf(nodes, 4) # {3}

\* ----------------------------------------------------------------- C8 ---
\* the tree below node n, by value
RECURSIVE TreeOf(_, _)
TreeOf(heap, n) ==
    [id |-> heap[n].id,
     title |-> heap[n].title,
     kids |-> [k \in 1..Len(heap[n].children) |-> TreeOf(heap, heap[n].children[k])]]

\* A reader of the emitted document.  Blank lines and indentation carry no
\* meaning.  topic := <topic> <title> [children] </topic>
\*           children := <children> <topics attached> topic+ </topics> </children>
IsMarkup(l) == l.tag # "empty"
TagAt(xs, i, tag) == i <= Len(xs) /\ xs[i].tag = tag
NoRead == [ok |-> FALSE, next |-> 0, trees |-> <<>>]

RECURSIVE ReadTopic(_, _)
RECURSIVE ReadTopics(_, _)
RECURSIVE ReadChildren(_, _)

ReadTopic(xs, i) ==
    IF ~(TagAt(xs, i, "topic") /\ TagAt(xs, i + 1, "title")) THEN NoRead
    ELSE LET below == IF TagAt(xs, i + 2, "children") THEN ReadChildren(xs, i + 2)
                      ELSE [ok |-> TRUE, next |-> i + 2, trees |-> <<>>]
         IN IF ~below.ok \/ ~TagAt(xs, below.next, "/topic") THEN NoRead
            ELSE [ok |-> TRUE,
                  next |-> below.next + 1,
                  trees |-> <<[id |-> xs[i].id,
                               title |-> xs[i + 1].text,
                               kids |-> below.trees]>>]

ReadTopics(xs, i) ==
    IF ~TagAt(xs, i, "topic") THEN [ok |-> TRUE, next |-> i, trees |-> <<>>]
    ELSE LET first == ReadTopic(xs, i)
         IN IF ~first.ok THEN NoRead
            ELSE LET rest == ReadTopics(xs, first.next)
                 IN IF ~rest.ok THEN NoRead
                    ELSE [ok |-> TRUE, next |-> rest.next,
                          trees |-> first.trees \o rest.trees]

ReadChildren(xs, i) ==
    IF ~(TagAt(xs, i, "children") /\ TagAt(xs, i + 1, "topics attached")) THEN NoRead
    ELSE LET inner == ReadTopics(xs, i + 2)
         IN IF \/ ~inner.ok
               \/ inner.trees = <<>>
               \/ ~TagAt(xs, inner.next, "/topics")
               \/ ~TagAt(xs, inner.next + 1, "/children")
            THEN NoRead
            ELSE [ok |-> TRUE, next |-> inner.next + 2, trees |-> inner.trees]

ReadDocument(xml) ==
    LET xs == SelectSeq(xml, IsMarkup)
    IN IF ~(TagAt(xs, 1, "?xml") /\ TagAt(xs, 2, "xmap-content") /\ TagAt(xs, 3, "sheet"))
       THEN NoRead
       ELSE LET top == ReadTopic(xs, 4)
            IN IF \/ ~top.ok
                  \/ ~TagAt(xs, top.next, "/sheet")
                  \/ ~TagAt(xs, top.next + 1, "/xmap-content")
                  \/ Len(xs) # top.next + 1
               THEN NoRead
               ELSE top

TagCount(xml, tag) == Cardinality({i \in 1..Len(xml) : xml[i].tag = tag})

\* C8: in the emitted content.xml a node without children (the root of an
\* empty input included) has no <children> block, a node with children has
\* exactly one <children> holding exactly one <topics type="attached">
\* holding one <topic> per child in child order, recursively: read back,
\* the document is the parsed tree.
C8_ChildrenBlocks ==
    Emitted =>
      /\ ReadDocument(content_xml).ok
      /\ ReadDocument(content_xml).trees = <<TreeOf(nodes, 1)>>
      /\ TagCount(content_xml, "children")
           = Cardinality({n \in 1..Len(nodes) : nodes[n].children # <<>>})
      /\ TagCount(content_xml, "topics attached") = TagCount(content_xml, "children")
      /\ nodes[1].children = <<>> => TagCount(content_xml, "children") = 0
      /\ written >= 1 => fs_output.entries[1].data = content_xml

\* a document was emitted for a tree with a leaf, a node with two children
\* and a node below the root with a child
C8_Witness ==
    /\ Emitted
    /\ written >= 1
    /\ \E p \in 1..Len(nodes) : Len(nodes[p].children) >= 2
    /\ \E p \in 2..Len(nodes) : Len(nodes[p].children) >= 1
    /\ TagCount(content_xml, "children") = 2

\* ----------------------------------------------------------------- C9 ---
MainIsBack == pc = "idle" /\ caller = "main"

\* C9: main returns 0 exactly when convert returned, with the archive
\* written, and 1 on every failure; with the input path missing it returns 1
\* at once: nothing is read or parsed, no id is taken, no file is touched.
C9_ExitCode ==
    /\ [](MainIsBack =>
            /\ exitCode \in {0, 1}
            /\ exitCode = 0 => (error = "none" /\ Complete(fs_output)
                                /\ Len(archives) >= 1
                                /\ archives[Len(archives)] = fs_output.entries)
            /\ exitCode = 1 => (error # "none" \/ fs_input = NoFile)
            /\ error # "none" => exitCode = 1)
    /\ [][(caller' = "main" /\ pc # "idle" /\ pc' = "idle") =>
            /\ exitCode' = 0 <=> pc = "returned"
            /\ exitCode' = 1 <=> pc = "unwound"]_vars
    /\ [][(fs_input = NoFile /\ caller' = "main" /\ calls' = calls + 1) =>
            /\ exitCode' = 1
            /\ pc' = "idle"
            /\ UNCHANGED <<files, node_id_counter, locals, archives>>]_vars

\* main returned 1 for a write failure, after an earlier call had succeeded
C9_Witness ==
    /\ MainIsBack
    /\ exitCode = 1
    /\ error = "write error"
    /\ Len(archives) = 1

\* ---------------------------------------------------------------- C11 ---
InParser == pc \in {"parse", "loop"}

\* C11: _parse_content has no rejecting path and terminates: a step of it
\* stays in the parser or returns, never raises, and every pass of the loop
\* moves one line on, never past the end; in the loop the ancestor stack is
\* non-empty with the root at its bottom and every entry above the root is
\* a child of the entry below it; what is returned is the root, and for an
\* input without non-blank lines the root has no children.
C11_NoRejectingPath ==
    /\ [](pc = "loop" =>
            /\ node_stack # <<>>
            /\ node_stack[1] = 1
            /\ \A i \in 2..Len(node_stack) :
                  /\ node_stack[i] \in 2..Len(nodes)
                  /\ InSeq(node_stack[i], nodes[node_stack[i - 1]].children)
            /\ idx \in 1..(Len(lines) + 1)
            /\ error = "none")
    /\ [](Parsed =>
            /\ nodes[1].title = RootTitle
            /\ ParentsOf(nodes, 1) = {}
            /\ idx = Len(lines) + 1
            /\ NonBlankCount(fs_input) = 0 => nodes = <<Node(nodes[1].id, RootTitle)>>)
    /\ [][InParser =>
            /\ pc' \in {"loop", "emit"}
            /\ error' = "none"
            /\ (pc = "loop" /\ pc' = "loop") => idx' = idx + 1
            /\ pc' = "emit" => (idx > Len(lines) /\ nodes' = nodes)]_vars

\* the loop has popped back to the root after going two levels down
C11_Witness ==
    /\ pc = "loop"
    /\ Len(nodes) >= 4
    /\ Len(node_stack) = 2
    /\ \E n \in 2..Len(nodes) : nodes[n].children # <<>>

\* ---------------------------------------------------------------- C12 ---
\* _create_simple_xmind_file is running (building, opening, writing, closing)
InEmitter == pc \in {"emit", "zip_open", "write"}

\* C12: the emitter only reads the parse result: no step of
\* _create_simple_xmind_file / _build_simple_children_xml, succeeding or
\* raising, changes a node's id, title or children or advances the node-id
\* counter.
C12_EmitterReadOnly ==
    [][InEmitter =>
         /\ nodes' = nodes
         /\ node_id_counter' = node_id_counter
         /\ pc' \in {"zip_open", "write", "returning", "raised"}]_vars

\* emission failed part-way, after content.xml was written, for a tree of
\* three or more nodes that is still whole and a counter that stands where
\* the parser left it
C12_Witness ==
    /\ pc = "raised"
    /\ error = "write error"
    /\ written >= 1
    /\ Len(nodes) >= 3
    /\ ReadDocument(fs_output.entries[1].data).trees = <<TreeOf(nodes, 1)>>
    /\ nodes[Len(nodes)].id = TopicId(node_id_counter[self])

=============================================================================
